---- MODULE Spec2Model ----
(***************************************************************************)
(* The four-phase skincare pipeline router of app/routers/skincare.py.     *)
(*                                                                         *)
(* State: the session store the router talks to (data_store) and a small   *)
(* number of request slots, each holding one in-flight request of one of   *)
(* the handlers phase1_form_analysis, phase2_image_analysis,               *)
(* phase3_product_recommendations, phase4_routine_creation and             *)
(* get_session_status.  The handlers are coroutines: a handler runs        *)
(* without interruption up to its next `await` on the store or on a        *)
(* service, and other requests may run between two such points.  One       *)
(* action of the model is one such uninterrupted stretch of a handler.     *)
(* The response a handler produces is visible in `last` in the state its   *)
(* final step leads to, together with the calls the request made.          *)
(***************************************************************************)
EXTENDS Integers, Sequences, FiniteSets, TLC

\* ---------------------------------------------------------------- bounds
MaxSessions == 2
MaxReq == 2
\* Phase requests (phase1..phase4) begun in one run; status queries, which
\* write nothing, are not counted.
MaxRequests == 4

SessionIds == 1..MaxSessions
Reqs == 1..MaxReq
Phases == {"phase1", "phase2", "phase3", "phase4"}

\* --------------------------------------------------------------- payloads
\* Python None (load_phase_data of a key never saved) and the empty dict {}.
Absent == [kind |-> "absent"]
EmptyPayload == [kind |-> "empty"]

\* bool(x) of a loaded payload: None and {} are falsy, every other dict truthy.
Truthy(p) == p # Absent /\ p # EmptyPayload

\* The form dicts phase1 receives (FormData has declared fields, so a form
\* dict is never empty).
Forms == {[kind |-> "form", id |-> 1]}

\* What phase2_service.analyze_face can hand back as analysis JSON: an
\* arbitrary JSON object, with or without an "ai_output" key, possibly {}.
AnalysisOutputs ==
    { EmptyPayload,
      [kind |-> "analysis", id |-> 1],
      [kind |-> "wrapped", ai_output |-> [kind |-> "analysis", id |-> 2]] }

\* analyze_face answers either with a plain dict or with a response object
\* whose body is the rendered JSON.
HasBody(x) == "body" \in DOMAIN x
AnalysisJson(analysis_result) ==
    IF HasBody(analysis_result) THEN analysis_result.body ELSE analysis_result
AnalysisResults ==
    AnalysisOutputs \cup {[body |-> [kind |-> "analysis", id |-> 1]]}

\* analysis_data.get("ai_output", analysis_data)
SkinAnalysis(analysis_data) ==
    IF "ai_output" \in DOMAIN analysis_data
    THEN analysis_data.ai_output ELSE analysis_data

Phase3Input(form_data, analysis_data) ==
    [form_data |-> form_data, skin_analysis |-> SkinAnalysis(analysis_data)]

\* phase3_service.budget_distribution: the recommendation computed from its
\* input, or (the service is opaque) an empty result.
Recommend(phase3_input) ==
    [kind |-> "rec",
     products |-> [form |-> phase3_input.form_data.id,
                   skin |-> phase3_input.skin_analysis.id]]
RecommendationOutputs(phase3_input) == {Recommend(phase3_input), EmptyPayload}

\* recommendations.get("products", {})
Products(recommendations) ==
    IF "products" \in DOMAIN recommendations
    THEN recommendations.products ELSE EmptyPayload

Phase4Input(form_data, recommendations) ==
    [form_data |-> form_data,
     product_recommendations |-> Products(recommendations)]

\* phase4_service.create_routine
CreateRoutine(phase4_input) ==
    [kind |-> "routine",
     form |-> phase4_input.form_data.id,
     products |-> phase4_input.product_recommendations]

\* ---------------------------------------------------------- content types
\* file.content_type is an optional string: <<>> is None, <<s>> the string s
\* (a sequence of characters).
NoContentType == <<>>
ImagePrefix == <<"i", "m", "a", "g", "e", "/">>
ImagePng == << ImagePrefix \o <<"p", "n", "g">> >>
ImageNoSlash == << <<"i", "m", "a", "g", "e">> >>
TextPlain == << <<"t", "e", "x", "t", "/", "p">> >>
ContentTypes == {NoContentType, ImagePng, ImageNoSlash, TextPlain}

\* The arguments of startswith taken the other way round.
StartsWithReversed(s, prefix) ==
    /\ Len(prefix) >= Len(s)
    /\ SubSeq(prefix, 1, Len(s)) = s

\* str.startswith
StartsWith(s, prefix) ==
    /\ Len(s) >= Len(prefix)
    /\ SubSeq(s, 1, Len(prefix)) = prefix

\* ------------------------------------------------------------------ state
VARIABLES
    sessions,   \* data_store: the session ids create_session has handed out
    data,       \* data_store: data[s][p], the payload saved under (s, p)
    op,         \* op[r]: the handler running in slot r
    pc,         \* pc[r]: where that handler stands
    arg,        \* arg[r]: the request's parameters
    local,      \* local[r]: the handler's live local variables
    calls,      \* calls[r]: the service and store-write calls the request made
    started,    \* the number of phase requests begun so far
    last        \* the request that ended in the step just taken, its response

vars == <<sessions, data, op, pc, arg, local, calls, started, last>>

NoArg == [session_id |-> 0, content_type |-> NoContentType]
NoLocal == [session_id |-> 0, form_data |-> Absent, result |-> Absent]
NoResp == [status_code |-> 0]
NoCalls == [service |-> FALSE, raised |-> FALSE, created |-> {}, saves |-> {}]
NoLast == [op |-> "none", arg |-> NoArg, calls |-> NoCalls, resp |-> NoResp]

Init ==
    /\ sessions = {}
    /\ data = [s \in SessionIds |-> [p \in Phases |-> Absent]]
    /\ op = [r \in Reqs |-> "none"]
    /\ pc = [r \in Reqs |-> "idle"]
    /\ arg = [r \in Reqs |-> NoArg]
    /\ local = [r \in Reqs |-> NoLocal]
    /\ calls = [r \in Reqs |-> NoCalls]
    /\ started = 0
    /\ last = NoLast

\* ------------------------------------------------------------ data_store
session_exists(session_id) == session_id \in sessions

\* A fresh identifier: one no session has (the smallest, identifiers being
\* interchangeable).
create_session ==
    CHOOSE s \in SessionIds \ sessions : \A t \in SessionIds \ sessions : s <= t

load_phase_data(session_id, phase) == data[session_id][phase]

\* SavedData as a write-once store: a second save leaves the first payload.
SavedDataKeepFirst(session_id, phase, payload) ==
    IF data[session_id][phase] = Absent
    THEN [data EXCEPT ![session_id][phase] = payload]
    ELSE data

\* A save that succeeds writes the payload under (session_id, phase),
\* replacing what was there; a save that fails writes nothing.
SavedData(session_id, phase, payload) ==
    [data EXCEPT ![session_id][phase] = payload]

PhaseFlags(session_id) ==
    [p \in Phases |-> data[session_id][p] # Absent]

\* (#completed / 4) * 100, a true division: 0, 25, 50, 75 or 100.
ProgressOf(phases) ==
    (Cardinality({p \in Phases : phases[p]}) * 100) \div 4

store_session_status(session_id) ==
    [phases |-> PhaseFlags(session_id),
     progress_percentage |-> ProgressOf(PhaseFlags(session_id))]

\* ------------------------------------------------------------ exceptions
HTTP_200_OK == 200
HTTP_201_CREATED == 201
HTTP_400_BAD_REQUEST == 400
HTTP_404_NOT_FOUND == 404
HTTP_500_INTERNAL_SERVER_ERROR == 500

NoError == [type |-> "none"]
HTTPException(status_code, detail) ==
    [type |-> "HTTPException", status_code |-> status_code, detail |-> detail]
\* What a phase service raises, and None.startswith(...).
ServiceError == [type |-> "Exception", message |-> <<"service error">>]
AttributeError == [type |-> "Exception", message |-> <<"no startswith">>]

CodeStr(status_code) ==
    CASE status_code = HTTP_400_BAD_REQUEST -> "400: "
      [] status_code = HTTP_404_NOT_FOUND -> "404: "
      [] status_code = HTTP_500_INTERNAL_SERVER_ERROR -> "500: "
      [] OTHER -> "?: "
\* str(e)
StrOf(e) ==
    IF e.type = "HTTPException"
    THEN <<CodeStr(e.status_code)>> \o e.detail
    ELSE e.message

ErrorResponse(e) == [status_code |-> e.status_code, detail |-> e.detail]

\* phase1's only handler: except Exception (an HTTPException included).
Phase1Except(e) == HTTPException(HTTP_500_INTERNAL_SERVER_ERROR, <<"Phase 1 failed: ">> \o StrOf(e))

\* RouterExcept without the `except HTTPException: raise` clause.
RouterExceptWrapAll(label, e) ==
    HTTPException(HTTP_500_INTERNAL_SERVER_ERROR, <<label>> \o StrOf(e))

\* The handlers of phases 2, 3, 4 and of the status query:
\* except HTTPException: raise / except Exception: 500 with the label.
RouterExcept(label, e) ==
    IF e.type = "HTTPException" THEN e
    ELSE HTTPException(HTTP_500_INTERNAL_SERVER_ERROR, <<label>> \o StrOf(e))

\* --------------------------------------------------------- request slots
\* A request takes the first idle slot (slots are interchangeable).
FirstIdle(r) ==
    /\ pc[r] = "idle"
    /\ \A q \in Reqs : q < r => pc[q] # "idle"

\* One more phase request begins.
Budget ==
    /\ started < MaxRequests
    /\ started' = started + 1

\* The handler of a new request runs up to its first wait.
Start(r, name, a, label, l, c) ==
    /\ op' = [op EXCEPT ![r] = name]
    /\ arg' = [arg EXCEPT ![r] = a]
    /\ pc' = [pc EXCEPT ![r] = label]
    /\ local' = [local EXCEPT ![r] = l]
    /\ calls' = [calls EXCEPT ![r] = c]
    /\ last' = NoLast

\* The handler runs from one wait to the next.
Step(r, label, l, c) ==
    /\ pc' = [pc EXCEPT ![r] = label]
    /\ local' = [local EXCEPT ![r] = l]
    /\ calls' = [calls EXCEPT ![r] = c]
    /\ last' = NoLast
    /\ UNCHANGED <<op, arg>>

\* The handler returns or raises: the response goes out, the slot is idle.
Finish(r, name, a, c, response) ==
    /\ op' = [op EXCEPT ![r] = "none"]
    /\ arg' = [arg EXCEPT ![r] = NoArg]
    /\ pc' = [pc EXCEPT ![r] = "idle"]
    /\ local' = [local EXCEPT ![r] = NoLocal]
    /\ calls' = [calls EXCEPT ![r] = NoCalls]
    /\ last' = [op |-> name, arg |-> a, calls |-> c, resp |-> response]

Called(c) == [c EXCEPT !.service = TRUE]
Raised(c) == [c EXCEPT !.service = TRUE, !.raised = TRUE]
Saved(c, session_id, phase, ok) ==
    [c EXCEPT !.saves = @ \cup {<<session_id, phase, ok>>}]

\* ---------------------------------------------------------------- phase 1
Phase1Success(session_id, form_dict) ==
    [status_code |-> HTTP_201_CREATED, session_id |-> session_id, status |-> "success",
     next_phase |-> "Phase 2: Upload facial image for analysis",
     data |-> form_dict]

\* phase1_request keeping one session id for all requests once it has one.
phase1_request_cached_id(r, form_data) ==
    LET session_id == IF sessions = {} THEN create_session
                      ELSE CHOOSE s \in sessions : TRUE
    IN  /\ FirstIdle(r)
        /\ sessions # SessionIds
        /\ sessions' = sessions \cup {session_id}
        /\ Start(r, "phase1", NoArg, "p1_save",
               [NoLocal EXCEPT !.session_id = session_id,
                               !.result = form_data],
               [Called(NoCalls) EXCEPT !.created = {session_id}])
        /\ UNCHANGED data

\* submit_form answers, create_session hands out a fresh id, and the handler
\* waits for the save.
phase1_request(r, form_data) ==
    /\ FirstIdle(r)
    /\ sessions # SessionIds
    /\ sessions' = sessions \cup {create_session}
    /\ Start(r, "phase1", NoArg, "p1_save",
           [NoLocal EXCEPT !.session_id = create_session,
                           !.result = form_data],
           [Called(NoCalls) EXCEPT !.created = {create_session}])
    /\ UNCHANGED data

phase1_form_analysis(r) ==
    \E form_data \in Forms : Budget /\ phase1_request(r, form_data)

phase1_submit_raises(r) ==
    /\ FirstIdle(r)
    /\ Budget
    /\ Finish(r, "phase1", NoArg, Raised(NoCalls),
           ErrorResponse(Phase1Except(ServiceError)))
    /\ UNCHANGED <<sessions, data>>

phase1_save(r) ==
    /\ pc[r] = "p1_save"
    /\ data' = SavedData(local[r].session_id, "phase1", local[r].result)
    /\ Finish(r, op[r], arg[r],
           Saved(calls[r], local[r].session_id, "phase1", TRUE),
           Phase1Success(local[r].session_id, local[r].result))
    /\ UNCHANGED <<sessions, started>>

phase1_save_fails(r) ==
    /\ pc[r] = "p1_save"
    /\ Finish(r, op[r], arg[r],
           Saved(calls[r], local[r].session_id, "phase1", FALSE),
           ErrorResponse(Phase1Except(
               HTTPException(HTTP_500_INTERNAL_SERVER_ERROR, <<"Failed to save form data">>))))
    /\ UNCHANGED <<sessions, data, started>>

\* ---------------------------------------------------------------- phase 2
\* Phase2Check without the session check.
Phase2CheckNoSession(exists, content_type) ==
    IF content_type = NoContentType
    THEN AttributeError
    ELSE IF ~StartsWith(content_type[1], ImagePrefix)
    THEN HTTPException(HTTP_400_BAD_REQUEST, <<"File must be an image (JPEG, PNG, etc.)">>)
    ELSE NoError

Phase2Check(exists, content_type) ==
    IF ~exists
    THEN HTTPException(HTTP_404_NOT_FOUND, <<"Session not found. Complete Phase 1 first.">>)
    ELSE IF content_type = NoContentType
    THEN AttributeError
    ELSE IF ~StartsWith(content_type[1], ImagePrefix)
    THEN HTTPException(HTTP_400_BAD_REQUEST, <<"File must be an image (JPEG, PNG, etc.)">>)
    ELSE NoError

Phase2Success(session_id, analysis_json) ==
    [status_code |-> HTTP_200_OK, session_id |-> session_id, status |-> "success",
     next_phase |-> "Phase 3: Generate product recommendations",
     analysis |-> analysis_json]

\* session_exists(session_id) and the content-type check
phase2_request(r, session_id, content_type) ==
    LET a == [session_id |-> session_id, content_type |-> content_type]
        e == Phase2Check(session_exists(session_id), content_type)
    IN  /\ FirstIdle(r)
        /\ IF e = NoError
           THEN Start(r, "phase2", a, "p2_analyze", NoLocal, NoCalls)
           ELSE Finish(r, "phase2", a, NoCalls,
                    ErrorResponse(RouterExcept("Phase 2 failed: ", e)))
        /\ UNCHANGED <<sessions, data>>

phase2_image_analysis(r) ==
    \E session_id \in SessionIds, content_type \in ContentTypes :
        Budget /\ phase2_request(r, session_id, content_type)

\* file.read(), analyze_face, the analysis JSON
phase2_analyze(r) ==
    \E analysis_result \in AnalysisResults :
        /\ pc[r] = "p2_analyze"
        /\ Step(r, "p2_save",
               [NoLocal EXCEPT !.result = AnalysisJson(analysis_result)],
               Called(calls[r]))
        /\ UNCHANGED <<sessions, data, started>>

phase2_analyze_raises(r) ==
    /\ pc[r] = "p2_analyze"
    /\ Finish(r, op[r], arg[r], Raised(calls[r]),
           ErrorResponse(RouterExcept("Phase 2 failed: ", ServiceError)))
    /\ UNCHANGED <<sessions, data, started>>

\* phase2_save dropping what was derived from the analysis it replaces.
phase2_save_invalidating(r) ==
    /\ pc[r] = "p2_save"
    /\ data' = [data EXCEPT ![arg[r].session_id] =
                   [@ EXCEPT !["phase2"] = local[r].result,
                             !["phase3"] = Absent,
                             !["phase4"] = Absent]]
    /\ Finish(r, op[r], arg[r],
           Saved(calls[r], arg[r].session_id, "phase2", TRUE),
           Phase2Success(arg[r].session_id, local[r].result))
    /\ UNCHANGED <<sessions, started>>

\* phase2_save with the payload kept under the phase name alone.
phase2_save_shared(r) ==
    /\ pc[r] = "p2_save"
    /\ data' = [s \in SessionIds |->
                   [data[s] EXCEPT !["phase2"] = local[r].result]]
    /\ Finish(r, op[r], arg[r],
           Saved(calls[r], arg[r].session_id, "phase2", TRUE),
           Phase2Success(arg[r].session_id, local[r].result))
    /\ UNCHANGED <<sessions, started>>

phase2_save(r) ==
    /\ pc[r] = "p2_save"
    /\ data' = SavedData(arg[r].session_id, "phase2", local[r].result)
    /\ Finish(r, op[r], arg[r],
           Saved(calls[r], arg[r].session_id, "phase2", TRUE),
           Phase2Success(arg[r].session_id, local[r].result))
    /\ UNCHANGED <<sessions, started>>

\* phase2_save_fails without the `if not success` check.
phase2_save_unchecked(r) ==
    /\ pc[r] = "p2_save"
    /\ Finish(r, op[r], arg[r],
           Saved(calls[r], arg[r].session_id, "phase2", FALSE),
           Phase2Success(arg[r].session_id, local[r].result))
    /\ UNCHANGED <<sessions, data, started>>

phase2_save_fails(r) ==
    /\ pc[r] = "p2_save"
    /\ Finish(r, op[r], arg[r],
           Saved(calls[r], arg[r].session_id, "phase2", FALSE),
           ErrorResponse(RouterExcept("Phase 2 failed: ",
               HTTPException(HTTP_500_INTERNAL_SERVER_ERROR, <<"Failed to save analysis data">>))))
    /\ UNCHANGED <<sessions, data, started>>

\* ---------------------------------------------------------------- phase 3
\* Phase3Check with its two checks in the other order.
Phase3CheckAnalysisFirst(form_data, analysis_data) ==
    IF ~Truthy(analysis_data)
    THEN HTTPException(HTTP_400_BAD_REQUEST,
             <<"Missing image analysis. Complete Phase 2 first.">>)
    ELSE IF ~Truthy(form_data)
    THEN HTTPException(HTTP_400_BAD_REQUEST, <<"Missing form data. Complete Phase 1 first.">>)
    ELSE NoError

Phase3Check(form_data, analysis_data) ==
    IF ~Truthy(form_data)
    THEN HTTPException(HTTP_400_BAD_REQUEST, <<"Missing form data. Complete Phase 1 first.">>)
    ELSE IF ~Truthy(analysis_data)
    THEN HTTPException(HTTP_400_BAD_REQUEST,
             <<"Missing image analysis. Complete Phase 2 first.">>)
    ELSE NoError

\* ProductRecommendationResponse(**recommendations)
Phase3Success(recommendations) ==
    [status_code |-> HTTP_200_OK, body |-> recommendations]

\* load_phase_data(session_id, "phase1")
phase3_request(r, session_id) ==
    /\ FirstIdle(r)
    /\ Start(r, "phase3", [NoArg EXCEPT !.session_id = session_id],
           "p3_load",
           [NoLocal EXCEPT
               !.form_data = load_phase_data(session_id, "phase1")],
           NoCalls)
    /\ UNCHANGED <<sessions, data>>

phase3_product_recommendations(r) ==
    \E session_id \in SessionIds : Budget /\ phase3_request(r, session_id)

\* load_phase_data(session_id, "phase2"), the two checks, budget_distribution
phase3_recommend(r) ==
    LET form_data == local[r].form_data
        analysis_data == load_phase_data(arg[r].session_id, "phase2")
        e == Phase3Check(form_data, analysis_data)
    IN  /\ pc[r] = "p3_load"
        /\ IF e # NoError
           THEN Finish(r, op[r], arg[r], calls[r],
                    ErrorResponse(RouterExcept("Phase 3 failed: ", e)))
           ELSE \E recommendations \in
                     RecommendationOutputs(Phase3Input(form_data, analysis_data)) :
                    Step(r, "p3_save",
                        [NoLocal EXCEPT !.result = recommendations],
                        Called(calls[r]))
        /\ UNCHANGED <<sessions, data, started>>

phase3_recommend_raises(r) ==
    /\ pc[r] = "p3_load"
    /\ Phase3Check(local[r].form_data,
                   load_phase_data(arg[r].session_id, "phase2")) = NoError
    /\ Finish(r, op[r], arg[r], Raised(calls[r]),
           ErrorResponse(RouterExcept("Phase 3 failed: ", ServiceError)))
    /\ UNCHANGED <<sessions, data, started>>

phase3_save(r) ==
    /\ pc[r] = "p3_save"
    /\ data' = SavedData(arg[r].session_id, "phase3", local[r].result)
    /\ Finish(r, op[r], arg[r],
           Saved(calls[r], arg[r].session_id, "phase3", TRUE),
           Phase3Success(local[r].result))
    /\ UNCHANGED <<sessions, started>>

phase3_save_fails(r) ==
    /\ pc[r] = "p3_save"
    /\ Finish(r, op[r], arg[r],
           Saved(calls[r], arg[r].session_id, "phase3", FALSE),
           ErrorResponse(RouterExcept("Phase 3 failed: ",
               HTTPException(HTTP_500_INTERNAL_SERVER_ERROR, <<"Failed to save recommendations">>))))
    /\ UNCHANGED <<sessions, data, started>>

\* ---------------------------------------------------------------- phase 4
\* Phase4Check without its second check.
Phase4CheckFormOnly(form_data, recommendations) ==
    IF ~Truthy(form_data)
    THEN HTTPException(HTTP_400_BAD_REQUEST, <<"Missing form data. Complete Phase 1 first.">>)
    ELSE NoError

Phase4Check(form_data, recommendations) ==
    IF ~Truthy(form_data)
    THEN HTTPException(HTTP_400_BAD_REQUEST, <<"Missing form data. Complete Phase 1 first.">>)
    ELSE IF ~Truthy(recommendations)
    THEN HTTPException(HTTP_400_BAD_REQUEST,
             <<"Missing product recommendations. Complete Phase 3 first.">>)
    ELSE NoError

\* SkincareRoutineResponse(**routine_result)
Phase4Success(routine_result) ==
    [status_code |-> HTTP_200_OK, body |-> routine_result]

\* load_phase_data(session_id, "phase1")
phase4_request(r, session_id) ==
    /\ FirstIdle(r)
    /\ Start(r, "phase4", [NoArg EXCEPT !.session_id = session_id],
           "p4_load",
           [NoLocal EXCEPT
               !.form_data = load_phase_data(session_id, "phase1")],
           NoCalls)
    /\ UNCHANGED <<sessions, data>>

phase4_routine_creation(r) ==
    \E session_id \in SessionIds : Budget /\ phase4_request(r, session_id)

\* load_phase_data(session_id, "phase3"), the two checks, create_routine
phase4_create(r) ==
    LET form_data == local[r].form_data
        recommendations == load_phase_data(arg[r].session_id, "phase3")
        e == Phase4Check(form_data, recommendations)
    IN  /\ pc[r] = "p4_load"
        /\ IF e # NoError
           THEN Finish(r, op[r], arg[r], calls[r],
                    ErrorResponse(RouterExcept("Phase 4 failed: ", e)))
           ELSE Step(r, "p4_save",
                    [NoLocal EXCEPT !.result =
                        CreateRoutine(Phase4Input(form_data, recommendations))],
                    Called(calls[r]))
        /\ UNCHANGED <<sessions, data, started>>

phase4_create_raises(r) ==
    /\ pc[r] = "p4_load"
    /\ Phase4Check(local[r].form_data,
                   load_phase_data(arg[r].session_id, "phase3")) = NoError
    /\ Finish(r, op[r], arg[r], Raised(calls[r]),
           ErrorResponse(RouterExcept("Phase 4 failed: ", ServiceError)))
    /\ UNCHANGED <<sessions, data, started>>

phase4_save(r) ==
    /\ pc[r] = "p4_save"
    /\ data' = SavedData(arg[r].session_id, "phase4", local[r].result)
    /\ Finish(r, op[r], arg[r],
           Saved(calls[r], arg[r].session_id, "phase4", TRUE),
           Phase4Success(local[r].result))
    /\ UNCHANGED <<sessions, started>>

phase4_save_fails(r) ==
    /\ pc[r] = "p4_save"
    /\ Finish(r, op[r], arg[r],
           Saved(calls[r], arg[r].session_id, "phase4", FALSE),
           ErrorResponse(RouterExcept("Phase 4 failed: ",
               HTTPException(HTTP_500_INTERNAL_SERVER_ERROR, <<"Failed to save routine">>))))
    /\ UNCHANGED <<sessions, data, started>>

\* ----------------------------------------------------------- status query
PhaseOrder == <<"phase1", "phase2", "phase3", "phase4">>
PipelineComplete == "Pipeline complete!"

\* CompletedPhases without the `if completed` filter.
CompletedPhasesUnfiltered(phase_status) == PhaseOrder

\* [phase for phase, completed in phase_status.items() if completed]
CompletedPhases(phase_status) ==
    SelectSeq(PhaseOrder, LAMBDA p : phase_status[p])

\* NextPhase looking at phase3 before phase2.
NextPhaseOutOfOrder(phase_status) ==
    IF ~phase_status["phase1"] THEN "Phase 1: Submit form data"
    ELSE IF ~phase_status["phase3"]
    THEN "Phase 3: Generate product recommendations"
    ELSE IF ~phase_status["phase2"] THEN "Phase 2: Upload facial image"
    ELSE IF ~phase_status["phase4"] THEN "Phase 4: Create skincare routine"
    ELSE PipelineComplete

NextPhase(phase_status) ==
    IF ~phase_status["phase1"] THEN "Phase 1: Submit form data"
    ELSE IF ~phase_status["phase2"] THEN "Phase 2: Upload facial image"
    ELSE IF ~phase_status["phase3"]
    THEN "Phase 3: Generate product recommendations"
    ELSE IF ~phase_status["phase4"] THEN "Phase 4: Create skincare routine"
    ELSE PipelineComplete

StatusResponse(session_id, phase_status_result) ==
    [status_code |-> HTTP_200_OK,
     session_id |-> session_id,
     completed_phases |-> CompletedPhases(phase_status_result.phases),
     progress_percentage |-> phase_status_result.progress_percentage,
     next_phase |-> NextPhase(phase_status_result.phases),
     phase_details |-> phase_status_result.phases,
     pipeline_complete |->
         (Len(CompletedPhases(phase_status_result.phases)) = Len(PhaseOrder))]

\* status_request in the get-or-create style: an unknown id is registered.
status_request_registering(r, session_id) ==
    LET a == [NoArg EXCEPT !.session_id = session_id] IN
    /\ FirstIdle(r)
    /\ sessions' = sessions \cup {session_id}
    /\ Finish(r, "status", a, NoCalls,
           StatusResponse(session_id, store_session_status(session_id)))
    /\ UNCHANGED <<data, started>>

\* session_exists(session_id), then data_store.get_session_status(session_id)
\* and the response.  Sessions are never removed, so the two reads of the
\* store give what they give when both happen at the second one: the query
\* is one step.
status_request(r, session_id) ==
    LET a == [NoArg EXCEPT !.session_id = session_id] IN
    /\ FirstIdle(r)
    /\ IF session_exists(session_id)
       THEN Finish(r, "status", a, NoCalls,
                StatusResponse(session_id, store_session_status(session_id)))
       ELSE Finish(r, "status", a, NoCalls,
                ErrorResponse(RouterExcept("Status check failed: ",
                    HTTPException(HTTP_404_NOT_FOUND, <<"Session not found">>))))
    /\ UNCHANGED <<sessions, data, started>>

get_session_status(r) ==
    \E session_id \in SessionIds : status_request(r, session_id)

\* ---------------------------------------------------------- specification
Next ==
    \E r \in Reqs :
        \/ phase1_form_analysis(r)
        \/ phase1_submit_raises(r)
        \/ phase1_save(r)
        \/ phase1_save_fails(r)
        \/ phase2_image_analysis(r)
        \/ phase2_analyze(r)
        \/ phase2_analyze_raises(r)
        \/ phase2_save(r)
        \/ phase2_save_fails(r)
        \/ phase3_product_recommendations(r)
        \/ phase3_recommend(r)
        \/ phase3_recommend_raises(r)
        \/ phase3_save(r)
        \/ phase3_save_fails(r)
        \/ phase4_routine_creation(r)
        \/ phase4_create(r)
        \/ phase4_create_raises(r)
        \/ phase4_save(r)
        \/ phase4_save_fails(r)
        \/ get_session_status(r)

Spec == Init /\ [][Next]_vars

\* ------------------------------------------------- the status query alone
\* The status query applied to a store holding any combination of saved
\* phases (a saved payload may be the empty dict).
SamplePayloads(p) ==
    CASE p = "phase1" -> Forms
      [] p = "phase2" -> {EmptyPayload, [kind |-> "analysis", id |-> 1]}
      [] p = "phase3" ->
             {[kind |-> "rec", products |-> [form |-> 1, skin |-> 1]]}
      [] OTHER ->
             {[kind |-> "routine", form |-> 1,
               products |-> [form |-> 1, skin |-> 1]]}

\* What one session can hold: for every phase nothing or a payload of it.
StoredSessions ==
    { m \in [Phases -> {Absent} \cup UNION {SamplePayloads(p) : p \in Phases}] :
          \A p \in Phases : m[p] \in {Absent} \cup SamplePayloads(p) }

InitStatus ==
    /\ sessions \in SUBSET SessionIds
    /\ data \in [SessionIds -> StoredSessions]
    /\ \A s \in SessionIds \ sessions, p \in Phases : data[s][p] = Absent
    /\ op = [r \in Reqs |-> "none"]
    /\ pc = [r \in Reqs |-> "idle"]
    /\ arg = [r \in Reqs |-> NoArg]
    /\ local = [r \in Reqs |-> NoLocal]
    /\ calls = [r \in Reqs |-> NoCalls]
    /\ started = 0
    /\ last = NoLast

NextStatus == \E r \in Reqs : get_session_status(r)

SpecStatus == InitStatus /\ [][NextStatus]_vars

\* ------------------------------------------------------ the end-to-end run
\* One client, one request at a time: the form, then for the session id S
\* the response carries an image upload, the recommendations, the routine
\* and the status query, and then the same again with a new form.  No save
\* fails and no service raises.
RunSession ==
    IF last.op = "phase1" THEN last.resp.session_id ELSE last.arg.session_id

E2EForm ==
    /\ last.op \in {"none", "status"}
    /\ \E form_data \in Forms : phase1_request(1, form_data)
    /\ UNCHANGED started

E2EImage ==
    /\ last.op = "phase1"
    /\ phase2_request(1, RunSession, ImagePng)
    /\ UNCHANGED started

E2ERecommendations ==
    /\ last.op = "phase2"
    /\ phase3_request(1, RunSession)
    /\ UNCHANGED started

E2ERoutine ==
    /\ last.op = "phase3"
    /\ phase4_request(1, RunSession)
    /\ UNCHANGED started

E2EStatus ==
    /\ last.op = "phase4"
    /\ status_request(1, RunSession)

NextE2E ==
    \/ E2EForm
    \/ phase1_save(1)
    \/ E2EImage
    \/ phase2_analyze(1)
    \/ phase2_save(1)
    \/ E2ERecommendations
    \/ phase3_recommend(1)
    \/ phase3_save(1)
    \/ E2ERoutine
    \/ phase4_create(1)
    \/ phase4_save(1)
    \/ E2EStatus

SpecE2E == Init /\ [][NextE2E]_vars

\* ================================================================= claims
Has(s, p) == data[s][p] # Absent
LastSession == last.arg.session_id
MissingForm == <<"Missing form data. Complete Phase 1 first.">>
MissingAnalysis == <<"Missing image analysis. Complete Phase 2 first.">>
MissingRecommendations ==
    <<"Missing product recommendations. Complete Phase 3 first.">>
NoWrites(c) == ~c.service /\ c.saves = {} /\ c.created = {}

\* C1: in every reachable state and for every session, a saved phase3
\* payload implies saved phase1 and phase2 payloads, and a saved phase4
\* payload implies saved phase1 and phase3 payloads.
C1_PhaseOrdering ==
    \A s \in SessionIds :
        /\ Has(s, "phase3") => Has(s, "phase1") /\ Has(s, "phase2")
        /\ Has(s, "phase4") => Has(s, "phase1") /\ Has(s, "phase3")

\* A session that went through all four phases, and a request that failed.
C1_Witness ==
    /\ \E s \in SessionIds : Has(s, "phase3") /\ Has(s, "phase4")
    /\ last.resp.status_code = HTTP_404_NOT_FOUND

\* C2: a phase2 request for a session that does not exist, a phase3 request
\* with phase1 or phase2 missing and a phase4 request with phase1 or phase3
\* missing end with NotFound / PreconditionFailed, call no phase service and
\* no save, and the step that answers them leaves the store as it was.
C2_Rejected ==
    \/ last.op = "phase2" /\ LastSession \notin sessions
    \/ last.op = "phase3" /\ (~Has(LastSession, "phase1") \/ ~Has(LastSession, "phase2"))
    \/ last.op = "phase4" /\ (~Has(LastSession, "phase1") \/ ~Has(LastSession, "phase3"))

C2_State ==
    C2_Rejected =>
        /\ NoWrites(last.calls)
        /\ IF last.op = "phase2"
           THEN last.resp.status_code = HTTP_404_NOT_FOUND
           ELSE /\ last.resp.status_code = HTTP_400_BAD_REQUEST
                /\ last.resp.detail \in
                       {MissingForm, MissingAnalysis, MissingRecommendations}

C2_Frame == C2_Rejected' => (data' = data /\ sessions' = sessions)

C2_NoSideEffects == []C2_State /\ [][C2_Frame]_vars

\* A phase4 request on a session that holds phase1 and phase2 but no phase3.
C2_Witness ==
    /\ last.op = "phase4"
    /\ Has(LastSession, "phase1") /\ Has(LastSession, "phase2")
    /\ ~Has(LastSession, "phase3")
    /\ last.resp.status_code = HTTP_400_BAD_REQUEST

\* C3: whenever a phase2 request on session s returns success, s holds a
\* phase1 payload and a phase2 payload.
\* (Taken in the claim's favour: a session whose phase1 request is still
\* waiting for its save is left out.)
C3_Phase2Transition ==
    (/\ last.op = "phase2"
     /\ last.resp.status_code = HTTP_200_OK
     /\ \A r \in Reqs :
            ~(pc[r] = "p1_save" /\ local[r].session_id = LastSession)) =>
        Has(LastSession, "phase1") /\ Has(LastSession, "phase2")

\* C4: with no save failing and no service raising, the run phase1 ->
\* phase2 (image upload) -> phase3 -> phase4 on the session id phase1
\* returned succeeds at every step and the status query that follows
\* reports all four phases complete, 100 percent, pipeline_complete and the
\* complete marker; phase3 does not succeed before phase2 has saved, nor
\* phase4 before phase3 has saved.
Succeeded == last.resp.status_code \in {HTTP_200_OK, HTTP_201_CREATED}

C4_EndToEnd ==
    /\ last.op \in Phases => Succeeded
    /\ (last.op = "phase3" /\ Succeeded) => Has(LastSession, "phase2")
    /\ (last.op = "phase4" /\ Succeeded) => Has(LastSession, "phase3")
    /\ last.op = "status" =>
           /\ last.resp.status_code = HTTP_200_OK
           /\ last.resp.completed_phases = PhaseOrder
           /\ last.resp.progress_percentage = 100
           /\ last.resp.pipeline_complete
           /\ last.resp.next_phase = PipelineComplete

\* C5: phase2 rejects every upload whose declared content type does not
\* start with "image/": on an existing session with status 400, without
\* calling the analysis service and without a save; on a session id that
\* does not exist the answer is 404 whatever the content type.
DeclaredNonImage(content_type) ==
    /\ content_type # NoContentType
    /\ ~(/\ Len(content_type[1]) >= Len(ImagePrefix)
         /\ \A i \in 1..Len(ImagePrefix) : content_type[1][i] = ImagePrefix[i])

C5_RejectsNonImage ==
    last.op = "phase2" =>
        /\ LastSession \notin sessions =>
               last.resp.status_code = HTTP_404_NOT_FOUND
        /\ (LastSession \in sessions /\ DeclaredNonImage(last.arg.content_type)) =>
               /\ last.resp.status_code = HTTP_400_BAD_REQUEST
               /\ last.resp.detail = <<"File must be an image (JPEG, PNG, etc.)">>
               /\ NoWrites(last.calls)

\* An upload declared as "image" (no slash) on an existing session.
C5_Witness ==
    /\ last.op = "phase2"
    /\ LastSession \in sessions
    /\ last.arg.content_type = ImageNoSlash
    /\ last.resp.status_code = HTTP_400_BAD_REQUEST

\* C6: the precondition error names the missing phase.  A phase3 request
\* that answers while phase1 is missing names Phase 1 (whatever else is
\* missing); one that found phase1 and answers while phase2 is missing
\* names Phase 2; phase4 likewise names Phase 1, and otherwise Phase 3.  The
\* answering step writes nothing.
Rejects(r, detail) ==
    /\ last'.resp = [status_code |-> HTTP_400_BAD_REQUEST, detail |-> detail]
    /\ NoWrites(last'.calls)
    /\ data' = data /\ sessions' = sessions

C6_Step(r) ==
    LET s == arg[r].session_id IN
    /\ (pc[r] = "p3_load" /\ pc'[r] = "idle") =>
           /\ ~Has(s, "phase1") => Rejects(r, MissingForm)
           /\ (Truthy(local[r].form_data) /\ ~Has(s, "phase2")) =>
                  Rejects(r, MissingAnalysis)
    /\ (pc[r] = "p4_load" /\ pc'[r] = "idle") =>
           /\ ~Has(s, "phase1") => Rejects(r, MissingForm)
           /\ (Truthy(local[r].form_data) /\ ~Has(s, "phase3")) =>
                  Rejects(r, MissingRecommendations)

C6_NamesMissingPhase == [][\A r \in Reqs : C6_Step(r)]_vars

\* phase3 on a session with only phase1 saved.
C6_Witness ==
    /\ last.op = "phase3"
    /\ last.resp.status_code = HTTP_400_BAD_REQUEST
    /\ last.resp.detail = MissingAnalysis
    /\ Has(LastSession, "phase1")
    /\ \A p \in Phases \ {"phase1"} : ~Has(LastSession, p)

\* C7: in every phase a save that returns false ends the request with a
\* 500 carrying the storage failure, never with success; and a phase
\* request that returns success has saved, with result true, the payload it
\* returns, which the store holds at that moment.
StorageMessages ==
    {"Failed to save form data", "Failed to save analysis data",
     "Failed to save recommendations", "Failed to save routine"}

ReturnedPayload ==
    CASE last.op = "phase1" -> last.resp.data
      [] last.op = "phase2" -> last.resp.analysis
      [] OTHER -> last.resp.body

C7_SoftFail ==
    /\ (\E c \in last.calls.saves : ~c[3]) =>
           /\ last.resp.status_code = HTTP_500_INTERNAL_SERVER_ERROR
           /\ last.resp.detail[Len(last.resp.detail)] \in StorageMessages
    /\ (last.op \in Phases /\ Succeeded) =>
           /\ <<RunSession, last.op, TRUE>> \in last.calls.saves
           /\ Has(RunSession, last.op)
           /\ data[RunSession][last.op] = ReturnedPayload

\* A phase3 request whose save returned false.
C7_Witness ==
    /\ last.op = "phase3"
    /\ <<LastSession, "phase3", FALSE>> \in last.calls.saves
    /\ last.resp.status_code = HTTP_500_INTERNAL_SERVER_ERROR

\* C8: a phase service that raises gives a 500 tagged with its phase and
\* nothing is saved; the NotFound, InvalidInput and PreconditionFailed
\* errors of phases 2, 3, 4 and of the status query keep their own status
\* code, and a tagged 500 of these handlers comes only from an error that
\* was not raised as an HTTP error.
PhaseTag(name) ==
    CASE name = "phase1" -> "Phase 1 failed: "
      [] name = "phase2" -> "Phase 2 failed: "
      [] name = "phase3" -> "Phase 3 failed: "
      [] name = "phase4" -> "Phase 4 failed: "
      [] OTHER -> "Status check failed: "

Tagged ==
    /\ last.resp.status_code = HTTP_500_INTERNAL_SERVER_ERROR
    /\ last.resp.detail[1] = PhaseTag(last.op)

C8_CatchAll ==
    /\ last.calls.raised =>
           Tagged /\ last.calls.saves = {} /\ last.calls.created = {}
    /\ (last.op \in {"phase2", "status"} /\ LastSession \notin sessions) =>
           last.resp.status_code = HTTP_404_NOT_FOUND
    /\ (/\ last.op = "phase2" /\ LastSession \in sessions
        /\ DeclaredNonImage(last.arg.content_type)) =>
           last.resp.status_code = HTTP_400_BAD_REQUEST
    /\ (last.op \in {"phase3", "phase4"} /\ C2_Rejected) =>
           last.resp.status_code = HTTP_400_BAD_REQUEST
    /\ (last.op \in {"phase2", "phase3", "phase4", "status"} /\ Tagged) =>
           \/ last.calls.raised
           \/ last.op = "phase2" /\ last.arg.content_type = NoContentType

\* The recommendation service raised.
C8_Witness ==
    /\ last.op = "phase3"
    /\ last.calls.raised
    /\ Tagged

\* C9: for an existing session and every combination of saved phases the
\* status query names as next_phase the first phase, in the order phase1 to
\* phase4, that is not saved, and the complete marker exactly when all four
\* are saved; pipeline_complete is true exactly with the complete marker.
PhaseLabels ==
    <<"Phase 1: Submit form data", "Phase 2: Upload facial image",
      "Phase 3: Generate product recommendations",
      "Phase 4: Create skincare routine">>

IsFirstMissing(s, i) ==
    /\ ~Has(s, PhaseOrder[i])
    /\ \A j \in 1..(i - 1) : Has(s, PhaseOrder[j])

StatusAnswered ==
    last.op = "status" /\ last.resp.status_code = HTTP_200_OK

C9_NextPhase ==
    StatusAnswered =>
        /\ \A i \in 1..Len(PhaseOrder) :
               IsFirstMissing(LastSession, i) =>
                   last.resp.next_phase = PhaseLabels[i]
        /\ last.resp.next_phase = PipelineComplete
               <=> \A p \in Phases : Has(LastSession, p)
        /\ last.resp.pipeline_complete
               <=> last.resp.next_phase = PipelineComplete

\* A combination no run of the pipeline produces: phase3 without phase2.
C9_Witness ==
    /\ StatusAnswered
    /\ Has(LastSession, "phase1") /\ ~Has(LastSession, "phase2")
    /\ Has(LastSession, "phase3") /\ Has(LastSession, "phase4")
    /\ last.resp.next_phase = PhaseLabels[2]

\* C10: the progress_percentage of the status query is 100 * (number of
\* saved phases) / 4, one of 0, 25, 50, 75, 100, and 25 times the length of
\* the completed_phases of the same response.
SavedCount(s) == Cardinality({p \in Phases : Has(s, p)})

C10_Progress ==
    StatusAnswered =>
        /\ 4 * last.resp.progress_percentage = 100 * SavedCount(LastSession)
        /\ last.resp.progress_percentage \in {0, 25, 50, 75, 100}
        /\ last.resp.progress_percentage =
               25 * Len(last.resp.completed_phases)

\* Two of four phases saved, phase1 not among them.
C10_Witness ==
    /\ StatusAnswered
    /\ ~Has(LastSession, "phase1")
    /\ last.resp.progress_percentage = 50

\* C11: the status query is read-only.  The step that answers a status
\* request, with the summary or with NotFound, leaves the set of sessions
\* and every saved payload as they were; an id that was unknown is still
\* unknown afterwards.
C11_Frame ==
    last'.op = "status" =>
        /\ sessions' = sessions
        /\ data' = data
        /\ last'.resp.status_code \in {HTTP_200_OK, HTTP_404_NOT_FOUND}
        /\ last'.resp.status_code = HTTP_404_NOT_FOUND =>
               last'.arg.session_id \notin sessions'

C11_StatusReadOnly == [][C11_Frame]_vars

\* A status query for an unknown id, asked while another session holds
\* payloads and a phase request is under way.
C11_Witness ==
    /\ last.op = "status"
    /\ last.resp.status_code = HTTP_404_NOT_FOUND
    /\ LastSession \notin sessions
    /\ \E s \in sessions : Has(s, "phase1")
    /\ \E r \in Reqs : pc[r] # "idle"

\* C12: sessions are independent.  Whenever a step changes what the store
\* holds for a session B (its existence or one of its payloads), the step
\* is either the start of a phase1 request that created B, nothing else
\* changing, or the save of a phase-N request on B, and then the only entry
\* that changed is (B, phaseN); the payloads and the status of every other
\* session are as before, under any interleaving.
SaveLabel(name) ==
    CASE name = "phase1" -> "p1_save"
      [] name = "phase2" -> "p2_save"
      [] name = "phase3" -> "p3_save"
      [] OTHER -> "p4_save"

SessionOf(r) ==
    IF op[r] = "phase1" THEN local[r].session_id ELSE arg[r].session_id

OthersUntouched(B) ==
    \A s \in SessionIds \ {B} :
        /\ data'[s] = data[s]
        /\ (s \in sessions') = (s \in sessions)
        /\ store_session_status(s)' = store_session_status(s)

C12_Frame ==
    \A B \in SessionIds :
        (data'[B] # data[B] \/ (B \in sessions') # (B \in sessions)) =>
            \E r \in Reqs :
                \/ /\ pc[r] = "idle" /\ op'[r] = "phase1"
                   /\ B \notin sessions /\ B \in sessions'
                   /\ local'[r].session_id = B
                   /\ data'[B] = data[B]
                   /\ OthersUntouched(B)
                \/ /\ op[r] \in Phases /\ pc[r] = SaveLabel(op[r])
                   /\ pc'[r] = "idle"
                   /\ SessionOf(r) = B
                   /\ B \in sessions /\ B \in sessions'
                   /\ \A p \in Phases \ {op[r]} : data'[B][p] = data[B][p]
                   /\ OthersUntouched(B)

C12_Independence == [][C12_Frame]_vars

\* A phase2 request on one session saved while a phase2 request on another
\* session was waiting for its own save.
C12_Witness ==
    /\ last.op = "phase2" /\ Succeeded
    /\ \E r \in Reqs :
           /\ op[r] = "phase2" /\ pc[r] = "p2_save"
           /\ arg[r].session_id # LastSession
           /\ Has(arg[r].session_id, "phase1")

\* C13: session creation.  A session never ceases to exist; the id a phase1
\* request obtains did not exist before its create_session call and exists
\* from then on; phase1 requests in flight at the same time hold different
\* ids, and a phase1 request writes its form under an id no phase1 request
\* has written to.
C13_State ==
    \A r \in Reqs :
        op[r] = "phase1" =>
            /\ session_exists(local[r].session_id)
            /\ ~Has(local[r].session_id, "phase1")
            /\ \A q \in Reqs \ {r} :
                   op[q] = "phase1" => local[q].session_id # local[r].session_id

C13_Step ==
    /\ sessions \subseteq sessions'
    /\ \A r \in Reqs :
           /\ (pc[r] = "idle" /\ op'[r] = "phase1") =>
                  /\ ~session_exists(local'[r].session_id)
                  /\ local'[r].session_id \in sessions'
                  /\ sessions' = sessions \cup {local'[r].session_id}
           /\ (pc[r] = "p1_save" /\ pc'[r] = "idle" /\ data' # data) =>
                  /\ ~Has(local[r].session_id, "phase1")
                  /\ last'.resp.session_id = local[r].session_id

C13_SessionCreation == []C13_State /\ [][C13_Step]_vars

\* Two phase1 requests waiting for their saves at the same time.
C13_Witness ==
    \E r, q \in Reqs :
        /\ r # q
        /\ pc[r] = "p1_save" /\ pc[q] = "p1_save"
        /\ local[r].session_id # local[q].session_id
        /\ sessions = {local[r].session_id, local[q].session_id}

\* C14: store round trip and overwrite.  After a save of payload v under
\* (s, p) that returned true, load_phase_data(s, p) gives v, whatever was
\* there before (last write wins); the entry (s, p) changes in no other
\* step, so it still gives v until the next save to (s, p); a save that
\* returned false changes nothing; and a key never saved loads as absent.
SaveStep(r, s, p) ==
    /\ op[r] = p /\ pc[r] = SaveLabel(p) /\ pc'[r] = "idle"
    /\ SessionOf(r) = s
    /\ last'.op = p

C14_Step ==
    /\ \A r \in Reqs : \A s \in {SessionOf(r)}, p \in {op[r]} :
           SaveStep(r, s, p) =>
               IF <<s, p, TRUE>> \in last'.calls.saves
               THEN load_phase_data(s, p)' = local[r].result
               ELSE data' = data
    /\ data' # data =>
           \A s \in SessionIds, p \in Phases :
               load_phase_data(s, p)' # load_phase_data(s, p) =>
                   \E r \in Reqs :
                       /\ SaveStep(r, s, p)
                       /\ <<s, p, TRUE>> \in last'.calls.saves

C14_State ==
    /\ \A s \in SessionIds \ sessions, p \in Phases :
           load_phase_data(s, p) = Absent
    /\ \A r \in Reqs :
           pc[r] \in {"p3_load", "p4_load"} =>
               local[r].form_data \in
                   {Absent, load_phase_data(arg[r].session_id, "phase1")}

ReportedComplete(s, p) == store_session_status(s).phases[p]

C15_StatusAgrees ==
    /\ (/\ last.op = "phase3"
        /\ ReportedComplete(LastSession, "phase1")
        /\ ReportedComplete(LastSession, "phase2")) =>
           ~(/\ last.resp.status_code = HTTP_400_BAD_REQUEST
             /\ last.resp.detail = MissingAnalysis)
    /\ (/\ last.op = "phase4"
        /\ ReportedComplete(LastSession, "phase1")
        /\ ReportedComplete(LastSession, "phase3")) =>
           ~(/\ last.resp.status_code = HTTP_400_BAD_REQUEST
             /\ last.resp.detail = MissingRecommendations)

\* C16: phase 1 is atomic on failure.  A phase1 request that ends with an
\* error leaves the session it created, if any, out of the store; every
\* existing session has a saved phase1 payload; and the status query never
\* names Phase 1 as the next phase.
\* (Taken in the claim's favour: a session whose phase1 request is still
\* waiting for its save is left out.)
Phase1InFlight(s) ==
    \E r \in Reqs : pc[r] = "p1_save" /\ local[r].session_id = s

C16_Phase1Atomic ==
    /\ (last.op = "phase1" /\ ~Succeeded) =>
           last.calls.created \cap sessions = {}
    /\ \A s \in sessions : Has(s, "phase1") \/ Phase1InFlight(s)
    /\ (StatusAnswered /\ ~Phase1InFlight(LastSession)) =>
           last.resp.next_phase # PhaseLabels[1]

\* C17: progress is monotone.  No step removes a session or a saved
\* payload: a phase reported complete stays reported complete and the
\* progress_percentage of a session never decreases; and a phase3 or phase4
\* request that found its prerequisites present and waits for its save
\* still finds them saved, whatever other requests on the session did.
C17_Step ==
    /\ sessions \subseteq sessions'
    /\ \A s \in SessionIds :
           data'[s] # data[s] =>
               LET before == store_session_status(s)
                   after == store_session_status(s)'
               IN  /\ \A p \in Phases :
                          /\ Has(s, p) => Has(s, p)'
                          /\ before.phases[p] => after.phases[p]
                   /\ after.progress_percentage >= before.progress_percentage

C17_State ==
    \A r \in Reqs :
        /\ pc[r] = "p3_save" =>
               Has(arg[r].session_id, "phase1") /\ Has(arg[r].session_id, "phase2")
        /\ pc[r] = "p4_save" =>
               Has(arg[r].session_id, "phase1") /\ Has(arg[r].session_id, "phase3")
        /\ (pc[r] \in {"p3_load", "p4_load"} /\ Truthy(local[r].form_data)) =>
               Has(arg[r].session_id, "phase1")

C17_Monotone == []C17_State /\ [][C17_Step]_vars

\* phase3 saved, taking the session to 75 percent, while a second phase2
\* request on the same session waits for its save.
C17_Witness ==
    /\ last.op = "phase3" /\ Succeeded
    /\ store_session_status(LastSession).progress_percentage = 75
    /\ \E r \in Reqs :
           /\ op[r] = "phase2" /\ pc[r] = "p2_save"
           /\ arg[r].session_id = LastSession

\* C18: derived payloads are never stale.  In every state a saved
\* (non-empty) phase3 payload of a session is the recommendation computed
\* from the phase1 and phase2 payloads the session holds now, and a saved
\* phase4 payload is the routine computed from the phase1 and phase3
\* payloads it holds now.
C18_NeverStale ==
    \A s \in SessionIds :
        /\ Truthy(data[s]["phase3"]) =>
               /\ Truthy(data[s]["phase1"]) /\ Truthy(data[s]["phase2"])
               /\ data[s]["phase3"] =
                      Recommend(Phase3Input(data[s]["phase1"], data[s]["phase2"]))
        /\ Has(s, "phase4") =>
               /\ Truthy(data[s]["phase1"]) /\ Truthy(data[s]["phase3"])
               /\ data[s]["phase4"] =
                      CreateRoutine(Phase4Input(data[s]["phase1"], data[s]["phase3"]))

====
